---- MODULE Spec2Model ----
(***************************************************************************)
(* Task board of Task-Manager-V2: the entity store behind the task        *)
(* endpoints, the React Query task cache with its update and create       *)
(* mutations, and the drag-and-drop handler of the board.                  *)
(***************************************************************************)
EXTENDS Integers, Sequences, FiniteSets, TLC

\* ------------------------------------------------------------------ bounds
MaxMoves == 2        \* drops the user performs on the board
MaxCreates == 1      \* create mutations the user submits
MaxFormMoves == 1    \* drops the user performs beside a create mutation
MaxApiCalls == 2     \* direct endpoint calls in the endpoint specification
MaxOrder == 1        \* largest order value of an initial task or a bulk item

\* --------------------------------------------------------------- constants
Null == 0
TitleMax == 200

Statuses == {"TODO", "IN_PROGRESS", "REVIEW", "DONE"}
BOARD_COLUMNS == <<"TODO", "IN_PROGRESS", "REVIEW", "DONE">>
Users == {"u1", "u2"}
Me == "u1"
NoUser == ""         \* getServerSession gave no session.user.id
Projects == {"p1", "p2"}
ProjectOwner == [p \in Projects |-> IF p = "p1" THEN "u1" ELSE "u2"]
Tags == {"g1", "g2"}
Hosts == {"dashboard", "provider"}

VARIABLES
  dbTasks,     \* entity store: task id -> stored task
  dbProjects,  \* entity store: project id -> stored project
  dbTaskTags,  \* entity store: the TaskTag rows, as pairs <<task id, tag id>>
  nextId,      \* next identifier the store hands out (also the creation time)
  clock,       \* server time, read by `new Date()`
  host,        \* which component mounts the board
  heap,        \* client objects: reference -> task object
  cache,       \* query data of ['tasks']: array of references
  columns,     \* TaskBoard state: lane -> array of references
  mutating,    \* update mutation between mutate() and the end of onMutate
  muts,        \* update mutations whose request has not settled
  creates,     \* create mutations whose request has not settled
  fetch,       \* the fetch of the ['tasks'] query
  hist,        \* every update request issued, with its outcome
  lastApplied, \* task id -> index in hist of the request the store applied last
  movesLeft, createsLeft, ncalls,
  ev,          \* the handler that ran last, with its input and outcome
  retryer,     \* one query or mutation function run under its retry option
  chartTasks,  \* AnalyticsCharts: the tasks prop
  analytics,   \* AnalyticsCharts: what the useMemo blocks hold for the tasks prop
  rateLimitMap, \* checkRateLimit: identifier -> {count, resetTime}
  dateNow,     \* checkRateLimit: Date.now()
  limit,       \* checkRateLimit: the maxRequests and windowMs the caller passes
  calls,       \* checkRateLimit: every call made, with its time and its result
  panelTasks,  \* Notifications: the tasks prop, by what the alerts read of a task
  dismissedNotifications, \* Notifications: useState<Set<string>>
  filter,      \* Notifications: useState 'all' | 'urgent' | 'today'
  everDismissed \* Notifications: the alerts dismissed so far, one by one or by clear-all

vars == <<dbTasks, dbProjects, dbTaskTags, nextId, clock, host, heap, cache, columns, mutating, muts,
          creates, fetch, hist, lastApplied, movesLeft, createsLeft, ncalls, ev,
          retryer, chartTasks, analytics, rateLimitMap, dateNow, limit, calls, panelTasks,
          dismissedNotifications, filter, everDismissed>>

serverVars == <<dbTasks, dbProjects, dbTaskTags, nextId, clock>>
clientVars == <<host, heap, cache, columns, mutating, muts, creates, fetch,
                hist, lastApplied, movesLeft, createsLeft>>
chartVars == <<chartTasks, analytics>>
limiterVars == <<rateLimitMap, dateNow, limit, calls>>
panelVars == <<panelTasks, dismissedNotifications, filter, everDismissed>>
widgetVars == <<chartVars, limiterVars, panelVars>>

\* ------------------------------------------------------------ entity store
StoredTask(st, ord, done, uid, pid, created) ==
  [status |-> st, order |-> ord, completedAt |-> done, userId |-> uid,
   projectId |-> pid, createdAt |-> created]

TaskIdsOf(db, uid) == {t \in DOMAIN db : db[t].userId = uid}

Max(S) == CHOOSE x \in S : \A y \in S : y <= x

\* the next order taken over every lane of the caller
NextOrderAnyLane(db, uid) ==
  IF TaskIdsOf(db, uid) = {} THEN 1
  ELSE Max({db[t].order : t \in TaskIdsOf(db, uid)}) + 1

\* POST /api/tasks: `(lastTask?.order || 0) + 1` over the caller's TODO tasks
NextOrder(db, uid) ==
  LET todo == {t \in TaskIdsOf(db, uid) : db[t].status = "TODO"}
  IN IF todo = {} THEN 1 ELSE Max({db[t].order : t \in todo}) + 1

\* a lookup by id alone
OwnsTaskAnyUser(db, uid, id) == id \in DOMAIN db

\* prisma.task.findFirst({ where: { id, userId } }) finds a task
OwnsTask(db, uid, id) == id \in DOMAIN db /\ db[id].userId = uid

\* prisma.project.findFirst({ where: { id, userId } }) finds a project
OwnsProject(projs, uid, id) == id \in DOMAIN projs /\ projs[id].userId = uid

\* the TaskTag rows of a task, and a task as a handler returns it: the task
\* with `include: { tags }` read from the rows given
TagsOf(tags, id) == {a[2] : a \in {b \in tags : b[1] = id}}

TaskView(db, tags, id) ==
  [id |-> id, status |-> db[id].status, order |-> db[id].order,
   completedAt |-> db[id].completedAt, projectId |-> db[id].projectId,
   tags |-> TagsOf(tags, id)]

\* `data` of a response is modelled as a sequence: empty when the response
\* carries none, of one element for one resource, the list for a list
NoData == <<>>

\* createTaskSchema: title 1..200 characters, a non-empty project id
CreateValid(req) ==
  /\ req.titleLen >= 1
  /\ req.titleLen <= TitleMax
  /\ req.projectId # ""

\* createTaskSchema.parse: the messages of the issues zod raises, in the order
\* of the schema's keys; min(1) carries its own message, max(200) zod's default
CreateIssues(req) ==
  (IF req.titleLen < 1 THEN <<"Title is required">>
   ELSE IF req.titleLen > TitleMax
        THEN <<"String must contain at most 200 character(s)">>
        ELSE <<>>)
  \o (IF req.projectId = "" THEN <<"Project ID is required">> ELSE <<>>)

\* POST /api/tasks: the status code and the store after the request
PostTaskStatus(projs, uid, req) ==
  IF uid = NoUser THEN 401
  ELSE IF ~CreateValid(req) THEN 400
  ELSE IF ~OwnsProject(projs, uid, req.projectId) THEN 404
  ELSE 201

PostTaskDb(db, projs, id, uid, req) ==
  IF PostTaskStatus(projs, uid, req) = 201
  THEN (id :> StoredTask("TODO", NextOrder(db, uid), Null, uid, req.projectId, id)) @@ db
  ELSE db

\* taskTag.createMany after the task is created, when tag ids were given
PostTaskTags(tags, projs, id, uid, req) ==
  IF PostTaskStatus(projs, uid, req) = 201
  THEN tags \cup {<<id, g>> : g \in req.tagIds}
  ELSE tags

\* the body of the response: `message` of the ZodError branch, and `data`,
\* the task as prisma.task.create returned it, before the tag rows are written
PostTaskMessage(projs, uid, req) ==
  IF PostTaskStatus(projs, uid, req) = 400 THEN CreateIssues(req)[1] ELSE ""

PostTaskData(db, tags, projs, id, uid, req) ==
  IF PostTaskStatus(projs, uid, req) = 201
  THEN <<TaskView(PostTaskDb(db, projs, id, uid, req), tags, id)>>
  ELSE NoData

\* a field the request body does not carry
NoStatus == "undefined"
NoOrder == -1
NoProject == "undefined"

\* updateData without the branch that clears completedAt
UpdateCompletedAtNeverCleared(existing, status, now) ==
  IF status = "DONE" /\ existing.status # "DONE" THEN now
  ELSE existing.completedAt

\* PUT /api/tasks/[id]: completedAt as updateData carries it
UpdateCompletedAt(existing, status, now) ==
  IF status = NoStatus THEN existing.completedAt
  ELSE IF status = "DONE" /\ existing.status # "DONE" THEN now
  ELSE IF status # "DONE" THEN Null
  ELSE existing.completedAt

\* updateTaskSchema: status one of the four, order an integer >= 0, both optional
UpdateValid(upd) ==
  /\ upd.status \in Statuses \cup {NoStatus}
  /\ upd.order >= 0 \/ upd.order = NoOrder
  /\ upd.projectId # ""

\* a body that carries status and order and nothing else
StatusAndOrder(status, order) ==
  [status |-> status, order |-> order, projectId |-> NoProject,
   hasTagIds |-> FALSE, tagIds |-> {}]

\* PUT /api/tasks/[id]: the status code; the project of the body is looked up
\* when it is given and differs from the task's
PutTaskStatus(db, projs, uid, id, upd) ==
  IF uid = NoUser THEN 401
  ELSE IF ~UpdateValid(upd) THEN 400
  ELSE IF ~OwnsTask(db, uid, id) THEN 404
  ELSE IF /\ upd.projectId # NoProject
          /\ upd.projectId # db[id].projectId
          /\ ~OwnsProject(projs, uid, upd.projectId) THEN 404
  ELSE 200

PutTaskDb(db, projs, uid, id, upd, now) ==
  IF PutTaskStatus(db, projs, uid, id, upd) = 200
  THEN [db EXCEPT ![id].status = IF upd.status = NoStatus THEN @ ELSE upd.status,
                  ![id].order = IF upd.order = NoOrder THEN @ ELSE upd.order,
                  ![id].completedAt = UpdateCompletedAt(db[id], upd.status, now),
                  ![id].projectId = IF upd.projectId = NoProject THEN @
                                    ELSE upd.projectId]
  ELSE db

\* createMany without the deleteMany before it
PutTaskTagsNoDelete(db, tags, projs, uid, id, upd) ==
  IF PutTaskStatus(db, projs, uid, id, upd) = 200 /\ upd.hasTagIds
  THEN tags \cup {<<id, g>> : g \in upd.tagIds}
  ELSE tags

\* the tag rows replaced once the task is found, before the project lookup
PutTaskTagsBeforeProjectCheck(db, tags, projs, uid, id, upd) ==
  IF uid # NoUser /\ UpdateValid(upd) /\ OwnsTask(db, uid, id) /\ upd.hasTagIds
  THEN {a \in tags : a[1] # id} \cup {<<id, g>> : g \in upd.tagIds}
  ELSE tags

\* taskTag.deleteMany({ where: { taskId } }) then createMany, when the body
\* carries tagIds
PutTaskTags(db, tags, projs, uid, id, upd) ==
  IF PutTaskStatus(db, projs, uid, id, upd) = 200 /\ upd.hasTagIds
  THEN {a \in tags : a[1] # id} \cup {<<id, g>> : g \in upd.tagIds}
  ELSE tags

\* `data` of the response: updatedTask, as prisma.task.update returned it
\* before the tag rows are replaced
PutTaskData(db, tags, projs, uid, id, upd, now) ==
  IF PutTaskStatus(db, projs, uid, id, upd) = 200
  THEN <<TaskView(PutTaskDb(db, projs, uid, id, upd, now), tags, id)>>
  ELSE NoData

\* GET /api/tasks/[id]
GetTaskStatus(db, uid, id) ==
  IF uid = NoUser THEN 401
  ELSE IF ~OwnsTask(db, uid, id) THEN 404
  ELSE 200

GetTaskData(db, tags, uid, id) ==
  IF GetTaskStatus(db, uid, id) = 200 THEN <<TaskView(db, tags, id)>> ELSE NoData

\* the handler without its session check
DeleteTaskStatusNoSession(db, uid, id) ==
  IF ~OwnsTask(db, uid, id) THEN 404 ELSE 200

\* DELETE /api/tasks/[id]: prisma.task.delete, and by onDelete: Cascade of
\* TaskTag.task the rows of the task
DeleteTaskStatus(db, uid, id) ==
  IF uid = NoUser THEN 401
  ELSE IF ~OwnsTask(db, uid, id) THEN 404
  ELSE 200

DeleteTaskDb(db, uid, id) ==
  IF DeleteTaskStatus(db, uid, id) = 200
  THEN [t \in DOMAIN db \ {id} |-> db[t]]
  ELSE db

DeleteTaskTags(db, tags, uid, id) ==
  IF DeleteTaskStatus(db, uid, id) = 200
  THEN {a \in tags : a[1] # id}
  ELSE tags

\* GET /api/projects/[id]: the project with the ids of its tasks
GetProjectStatus(projs, uid, id) ==
  IF uid = NoUser THEN 401
  ELSE IF ~OwnsProject(projs, uid, id) THEN 404
  ELSE 200

GetProjectData(db, projs, uid, id) ==
  IF GetProjectStatus(projs, uid, id) = 200
  THEN <<[id |-> id, name |-> projs[id].name,
          tasks |-> {t \in DOMAIN db : db[t].projectId = id}]>>
  ELSE NoData

\* PUT /api/projects/[id]: `...(name && { name })`, no validation
NoName == ""

PutProjectStatus(projs, uid, id) ==
  IF uid = NoUser THEN 401
  ELSE IF ~OwnsProject(projs, uid, id) THEN 404
  ELSE 200

PutProjectDb(projs, uid, id, name) ==
  IF PutProjectStatus(projs, uid, id) = 200 /\ name # NoName
  THEN [projs EXCEPT ![id].name = name]
  ELSE projs

\* DELETE /api/projects/[id]: prisma.project.delete, and by onDelete: Cascade
\* of Task.project the tasks of the project, and of TaskTag.task their rows
DeleteProjectStatus(projs, uid, id) ==
  IF uid = NoUser THEN 401
  ELSE IF ~OwnsProject(projs, uid, id) THEN 404
  ELSE 200

DeleteProjectProjects(projs, uid, id) ==
  IF DeleteProjectStatus(projs, uid, id) = 200
  THEN [q \in DOMAIN projs \ {id} |-> projs[q]]
  ELSE projs

\* the project row deleted alone, its tasks kept
DeleteProjectDbNoCascade(db, projs, uid, id) == db

DeleteProjectDb(db, projs, uid, id) ==
  IF DeleteProjectStatus(projs, uid, id) = 200
  THEN [t \in {u \in DOMAIN db : db[u].projectId # id} |-> db[t]]
  ELSE db

DeleteProjectTags(db, tags, projs, uid, id) ==
  IF DeleteProjectStatus(projs, uid, id) = 200
  THEN {a \in tags : a[1] \in DOMAIN DeleteProjectDb(db, projs, uid, id)}
  ELSE tags

\* PUT /api/tasks (bulk): one prisma.task.update per item, no validation
BulkItemOk(db, uid, item) == item.id \in DOMAIN db /\ db[item.id].userId = uid

BulkItemDb(db, uid, item, now) ==
  IF BulkItemOk(db, uid, item)
  THEN [db EXCEPT ![item.id].status = item.status,
                  ![item.id].order = item.order,
                  ![item.id].completedAt =
                     IF item.status = "DONE" THEN now ELSE db[item.id].completedAt]
  ELSE db

\* a bulk update run as one transaction: nothing is written when an item fails
RECURSIVE BulkDbInTransaction(_, _, _, _)
BulkDbInTransaction(db, uid, items, now) ==
  IF \E i \in 1..Len(items) : ~BulkItemOk(db, uid, items[i]) THEN db
  ELSE IF items = <<>> THEN db
  ELSE BulkDbInTransaction(BulkItemDb(db, uid, Head(items), now), uid,
                           Tail(items), now)

RECURSIVE BulkDb(_, _, _, _)
BulkDb(db, uid, items, now) ==
  IF items = <<>> THEN db
  ELSE BulkDb(BulkItemDb(db, uid, Head(items), now), uid, Tail(items), now)

BulkStatus(db, uid, items) ==
  IF uid = NoUser THEN 401
  ELSE IF \A i \in 1..Len(items) : BulkItemOk(db, uid, items[i]) THEN 200
  ELSE 500

\* GET /api/tasks: the caller's tasks by status asc, order asc, createdAt desc
StatusRank(st) ==
  CASE st = "DONE" -> 1
    [] st = "IN_PROGRESS" -> 2
    [] st = "REVIEW" -> 3
    [] st = "TODO" -> 4
    [] OTHER -> 0

ListBefore(db, a, b) ==
  \/ StatusRank(db[a].status) < StatusRank(db[b].status)
  \/ /\ db[a].status = db[b].status
     /\ \/ db[a].order < db[b].order
        \/ db[a].order = db[b].order /\ db[a].createdAt > db[b].createdAt

ClientTask(db, t) ==
  [id |-> t, status |-> db[t].status, order |-> db[t].order,
   completedAt |-> db[t].completedAt]

RECURSIVE SortedIds(_, _)
SortedIds(db, ids) ==
  IF ids = {} THEN <<>>
  ELSE LET first == CHOOSE a \in ids : \A b \in ids \ {a} : ListBefore(db, a, b)
       IN <<first>> \o SortedIds(db, ids \ {first})

GetTasks(db, uid) ==
  LET ids == SortedIds(db, TaskIdsOf(db, uid))
  IN [i \in 1..Len(ids) |-> ClientTask(db, ids[i])]

\* completedAt values are distinct: the clock moves on when it has been read
Tick(db, db2, now) ==
  IF \E t \in DOMAIN db2 : db2[t].completedAt = now /\ (t \notin DOMAIN db \/ db[t].completedAt # now)
  THEN now + 1 ELSE now

\* ------------------------------------------------------------ client heap
Range(s) == {s[i] : i \in 1..Len(s)}

RemoveAt(s, i) == SubSeq(s, 1, i - 1) \o SubSeq(s, i + 1, Len(s))

InsertAt(s, i, x) == SubSeq(s, 1, i - 1) \o <<x>> \o SubSeq(s, i, Len(s))

\* the n-th reference that names no object yet
NthFree(h, n) ==
  CHOOSE r \in 1..(Cardinality(DOMAIN h) + n) :
    /\ r \notin DOMAIN h
    /\ Cardinality({q \in 1..r : q \notin DOMAIN h}) = n

Values(h, refs) == [i \in 1..Len(refs) |-> h[refs[i]]]

\* Array.prototype.sort((a, b) => a.order - b.order), which is stable: an
\* element comes after those of smaller order and after the equal ones that
\* stood before it
SortByOrder(h, s) ==
  LET before(i, k) == \/ h[s[k]].order < h[s[i]].order
                      \/ h[s[k]].order = h[s[i]].order /\ k < i
      rank(i) == Cardinality({k \in 1..Len(s) : before(i, k)}) + 1
  IN [p \in 1..Len(s) |-> s[CHOOSE i \in 1..Len(s) : rank(i) = p]]

\* TaskBoard useEffect: one lane per status, filtered and sorted by order
BuildColumns(h, tasks) ==
  [lane \in Statuses |->
     SortByOrder(h, SelectSeq(tasks, LAMBDA r : h[r].status = lane))]

\* queryClient.setQueryData with structural sharing (replaceEqualDeep): an
\* entry equal to the entry already cached at its position keeps that
\* object, any other entry is a new object; the board is rebuilt when the
\* array handed to it is a new one
SetQueryData(h, c, cols, vals) ==
  LET keep(i) == i <= Len(c) /\ h[c[i]] = vals[i]
      fresh(i) == NthFree(h, Cardinality({k \in 1..i : ~keep(k)}))
      refs == [i \in 1..Len(vals) |-> IF keep(i) THEN c[i] ELSE fresh(i)]
      made == {i \in 1..Len(vals) : ~keep(i)}
      h2 == [r \in DOMAIN h \cup {refs[i] : i \in made} |->
               IF \E i \in made : refs[i] = r
               THEN vals[CHOOSE i \in made : refs[i] = r]
               ELSE h[r]]
  IN [heap |-> h2, cache |-> refs,
      columns |-> IF refs = c THEN cols ELSE BuildColumns(h2, refs)]

\* Object identity is kept up to renaming: the objects still referred to are
\* numbered in the order the query data, the lanes and the contexts of the
\* pending mutations reach them, and the others are dropped.
RECURSIVE Snaps(_)
Snaps(ms) == IF ms = <<>> THEN <<>> ELSE Head(ms).snap \o Snaps(Tail(ms))

Reach(c, cols, ms) ==
  c \o cols["TODO"] \o cols["IN_PROGRESS"] \o cols["REVIEW"] \o cols["DONE"] \o Snaps(ms)

Normalize(h, c, cols, ms) ==
  LET all == Reach(c, cols, ms)
      first(r) == CHOOSE k \in 1..Len(all) :
                    all[k] = r /\ \A m \in 1..(k - 1) : all[m] # r
      name(r) == Cardinality({all[m] : m \in 1..first(r)})
      ren(q) == [i \in 1..Len(q) |-> name(q[i])]
  IN [heap |-> [n \in 1..Cardinality(Range(all)) |->
                  h[CHOOSE r \in Range(all) : name(r) = n]],
      cache |-> ren(c),
      columns |-> [lane \in Statuses |-> ren(cols[lane])],
      muts |-> [k \in 1..Len(ms) |-> [ms[k] EXCEPT !.snap = ren(ms[k].snap)]]]

Store(h, c, cols, ms) ==
  \E n \in {Normalize(h, c, cols, ms)} :
    /\ heap' = n.heap
    /\ cache' = n.cache
    /\ columns' = n.columns
    /\ muts' = n.muts

CacheValues == Values(heap, cache)

LaneValues(lane) == Values(heap, columns[lane])

\* ------------------------------------------------------------------- Init
InitTasks == 2
InitStatuses == {"TODO", "DONE"}

NoMutation == [taskId |-> 0, status |-> "", order |-> 0, pre |-> <<>>]
Idle == [st |-> "idle", data |-> <<>>]
Sent == [st |-> "sent", data |-> <<>>]
NoEvent == [type |-> "none"]
NoRequest == [fn |-> "", st |-> "idle", failureCount |-> 0, attempts |-> <<>>]

\* the tasks of the other user in the store: none, or one TODO task in the
\* other user's project, with an order above every order of Me
NoOthers == [t \in {} |-> 0]
OneOther ==
  (InitTasks + 1) :> StoredTask("TODO", MaxOrder + 2, Null, "u2", "p2", InitTasks + 1)

InitCore(others, moves, forms) ==
  /\ \E st \in [1..InitTasks -> InitStatuses] :
       dbTasks = [t \in 1..InitTasks |->
                    StoredTask(st[t], t - 1, IF st[t] = "DONE" THEN 1 ELSE Null,
                               Me, "p1", t)] @@ others
  /\ dbProjects = [p \in Projects |-> [userId |-> ProjectOwner[p], name |-> "n0"]]
  /\ dbTaskTags = {<<1, "g1">>} \cup {<<t, "g2">> : t \in DOMAIN others}
  /\ nextId = InitTasks + Cardinality(DOMAIN others) + 1
  /\ clock = 2
  /\ host \in Hosts
  /\ cache = [i \in 1..InitTasks |-> i]
  /\ heap = [i \in 1..InitTasks |-> GetTasks(dbTasks, Me)[i]]
  /\ columns = BuildColumns(heap, cache)
  /\ mutating = NoMutation
  /\ muts = <<>>
  /\ creates = <<>>
  /\ fetch = Idle
  /\ hist = <<>>
  /\ lastApplied = [t \in {} |-> 0]
  /\ movesLeft = moves
  /\ createsLeft = forms
  /\ ncalls = 0
  /\ ev = NoEvent
  /\ retryer = NoRequest

\* the widgets of the dashboard page before they are handed anything
NoAnalytics == [totalTasks |-> 0]
DefaultLimit == [maxRequests |-> 60, windowMs |-> 60000]
NoEntries == [t \in {} |-> 0]

ChartsIdle == chartTasks = <<>> /\ analytics = NoAnalytics
LimiterIdle ==
  rateLimitMap = NoEntries /\ dateNow = 0 /\ limit = DefaultLimit /\ calls = <<>>
PanelIdle ==
  /\ panelTasks = NoEntries
  /\ dismissedNotifications = {}
  /\ filter = "all"
  /\ everDismissed = {}

InitWithOthers(others, moves, forms) ==
  InitCore(others, moves, forms) /\ ChartsIdle /\ LimiterIdle /\ PanelIdle

InitWith(moves, forms) == InitWithOthers(NoOthers, moves, forms)

Init == InitWith(MaxMoves, 0)

InitStore == InitWithOthers(OneOther, 0, 0)

InitForm == InitWith(MaxFormMoves, MaxCreates)

\* ------------------------------------------------------------- the board
\* the loading prop: the dashboard page hides the board while its update
\* mutation is pending, TaskBoardWithProvider only during the first load
BoardShown == host = "dashboard" => muts = <<>>

\* handleDragEnd without the forEach that renumbers the destination lane
DragColumnsKeepOrders(h, cols, A, i0, B, j0) ==
  LET id == h[cols[A][i0 + 1]].id
      found == {k \in 1..Len(cols[A]) : h[cols[A][k]].id = id}
      draggedTask == cols[A][CHOOSE k \in found : \A m \in found : k <= m]
      updatedTask == NthFree(h, 1)
      h1 == (updatedTask :> [h[draggedTask] EXCEPT !.status = B, !.order = j0]) @@ h
      removed == RemoveAt(cols[A], i0 + 1)
      dest == InsertAt(IF A = B THEN removed ELSE cols[B], j0 + 1, updatedTask)
  IN [heap |-> h1, columns |-> [cols EXCEPT ![A] = removed, ![B] = dest]]

\* handleDragEnd renumbering the source lane as well as the destination lane
DragColumnsRenumberSource(h, cols, A, i0, B, j0) ==
  LET new == DragColumnsKeepOrders(h, cols, A, i0, B, j0)
      place(lane, r) == CHOOSE k \in 1..Len(new.columns[lane]) :
                          new.columns[lane][k] = r
  IN [heap |-> [r \in DOMAIN new.heap |->
                  IF r \in Range(new.columns[B])
                  THEN [new.heap[r] EXCEPT !.order = place(B, r) - 1]
                  ELSE IF r \in Range(new.columns[A])
                  THEN [new.heap[r] EXCEPT !.order = place(A, r) - 1]
                  ELSE new.heap[r]],
      columns |-> new.columns]

\* TaskBoard.handleDragEnd up to the call of onTaskUpdate
DragColumns(h, cols, A, i0, B, j0) ==
  LET id == h[cols[A][i0 + 1]].id
      found == {k \in 1..Len(cols[A]) : h[cols[A][k]].id = id}
      draggedTask == cols[A][CHOOSE k \in found : \A m \in found : k <= m]
      updatedTask == NthFree(h, 1)
      h1 == (updatedTask :> [h[draggedTask] EXCEPT !.status = B, !.order = j0]) @@ h
      removed == RemoveAt(cols[A], i0 + 1)
      dest == InsertAt(IF A = B THEN removed ELSE cols[B], j0 + 1, updatedTask)
      index(r) == CHOOSE k \in 1..Len(dest) :
                    dest[k] = r /\ \A m \in 1..Len(dest) : dest[m] = r => m <= k
      h2 == [r \in DOMAIN h1 |->
               IF r \in Range(dest) THEN [h1[r] EXCEPT !.order = index(r) - 1]
               ELSE h1[r]]
  IN [heap |-> h2, columns |-> [cols EXCEPT ![A] = removed, ![B] = dest]]

\* handleDragEnd without the same-position return
DropIgnoredNoDestination(A, i0, hasDest, B, j0) == ~hasDest

\* the early returns of handleDragEnd
DropIgnored(A, i0, hasDest, B, j0) == ~hasDest \/ (B = A /\ j0 = i0)

HandleDragEnd(A, i0, hasDest, B, j0) ==
  /\ mutating = NoMutation
  /\ BoardShown
  /\ movesLeft > 0
  /\ i0 + 1 \in 1..Len(columns[A])
  /\ movesLeft' = movesLeft - 1
  /\ LET id == heap[columns[A][i0 + 1]].id
         new == DragColumns(heap, columns, A, i0, B, j0)
     IN /\ ev' = [type |-> "handleDragEnd", id |-> id, src |-> <<A, i0>>,
                  dst |-> IF hasDest THEN <<B, j0>> ELSE <<>>]
        /\ IF DropIgnored(A, i0, hasDest, B, j0)
           THEN UNCHANGED <<heap, cache, columns, muts, mutating>>
           ELSE /\ Store(new.heap, cache, new.columns, muts)
                /\ mutating' = [taskId |-> id, status |-> B, order |-> j0,
                                pre |-> CacheValues]
  /\ UNCHANGED <<serverVars, host, retryer, widgetVars, creates, fetch, hist, lastApplied, createsLeft,
                 ncalls>>

Drop ==
  \E A \in Statuses, B \in Statuses, hasDest \in BOOLEAN :
    \E i0 \in 0..(Len(columns[A]) - 1) :
      \E j0 \in 0..(IF A = B THEN Len(columns[A]) - 1 ELSE Len(columns[B])) :
        /\ hasDest \/ (B = A /\ j0 = i0)
        /\ HandleDragEnd(A, i0, hasDest, B, j0)

\* ------------------------------------------------------ update mutation
\* onMutate writing the status and forgetting the order
OnMutateCacheStatusOnly(h, c, cols, taskId, updates) ==
  SetQueryData(h, c, cols,
    [i \in 1..Len(c) |->
       IF h[c[i]].id = taskId
       THEN [h[c[i]] EXCEPT !.status = updates.status]
       ELSE h[c[i]]])

\* useUpdateTask.onMutate: the optimistic write
OnMutateCache(h, c, cols, taskId, updates) ==
  SetQueryData(h, c, cols,
    [i \in 1..Len(c) |->
       IF h[c[i]].id = taskId
       THEN [h[c[i]] EXCEPT !.status = updates.status, !.order = updates.order]
       ELSE h[c[i]]])

\* ------------------------------------------------------- notifications
\* onTaskUpdate as handleDragEnd awaits it: the dashboard page awaits
\* mutateAsync, TaskBoardWithProvider calls mutate and returns at once
AwaitsResponse(h) == h = "dashboard"

\* whether the awaited onTaskUpdate rejects when the request has failed: the
\* dashboard page catches the error of mutateAsync and logs it, mutate
\* returns nothing to wait for
OnTaskUpdateRejects(h, net) == FALSE

\* handleDragEnd after `await onTaskUpdate(...)`: the toast of the try block,
\* or the one of the catch block
DragEndToasts(rejected) == IF rejected THEN <<"Error">> ELSE <<"Task moved">>

\* useUpdateTask.onSuccess / onError
HookToasts(net) ==
  IF net = "ok" THEN <<"Task updated successfully">> ELSE <<"Failed to update task">>

\* onMutate runs (cancelQueries, snapshot, optimistic write), the request leaves
\* (a mutation remembers the oldest mutation it overlaps with, directly or
\* through others, and the cached list as it was when that one started)
OnMutate ==
  /\ mutating # NoMutation
  /\ \E new \in {OnMutateCache(heap, cache, columns, mutating.taskId, mutating)} :
     LET m == [mid |-> Len(hist) + 1, taskId |-> mutating.taskId,
               status |-> mutating.status, order |-> mutating.order,
               snap |-> cache, pre |-> mutating.pre, net |-> "sent",
               first |-> IF muts = <<>> THEN Len(hist) + 1 ELSE muts[1].first,
               base |-> IF muts = <<>> THEN CacheValues ELSE muts[1].base]
     IN /\ Store(new.heap, new.cache, new.columns, Append(muts, m))
        /\ hist' = Append(hist, [taskId |-> m.taskId, status |-> m.status,
                                 order |-> m.order, result |-> "pending"])
        /\ ev' = [type |-> "onMutate", mid |-> m.mid,
                  toasts |-> IF AwaitsResponse(host) THEN <<>>
                             ELSE DragEndToasts(FALSE)]
  /\ fetch' = Idle
  /\ mutating' = NoMutation
  /\ UNCHANGED <<serverVars, host, retryer, widgetVars, creates, lastApplied, movesLeft, createsLeft, ncalls>>

\* PUT /api/tasks/[id] handles the request of mutation k
ServerPutTask(k) ==
  /\ mutating = NoMutation
  /\ k \in 1..Len(muts)
  /\ muts[k].net = "sent"
  /\ LET m == muts[k]
         upd == StatusAndOrder(m.status, m.order)
         code == PutTaskStatus(dbTasks, dbProjects, Me, m.taskId, upd)
     IN /\ dbTasks' = PutTaskDb(dbTasks, dbProjects, Me, m.taskId, upd, clock)
        /\ dbTaskTags' = PutTaskTags(dbTasks, dbTaskTags, dbProjects, Me, m.taskId, upd)
        /\ clock' = Tick(dbTasks, dbTasks', clock)
        /\ muts' = [muts EXCEPT ![k].net = IF code = 200 THEN "ok" ELSE "err"]
        /\ lastApplied' = IF code = 200 THEN (m.taskId :> m.mid) @@ lastApplied
                          ELSE lastApplied
  /\ ev' = NoEvent
  /\ UNCHANGED <<dbProjects, nextId, host, retryer, widgetVars, heap, cache, columns, mutating,
                 creates, fetch, hist, movesLeft, createsLeft, ncalls>>

\* the request of mutation k fails for good: no session, a server error, no
\* network (the one retry of defaultOptions.mutations.retry included)
FailPutTask(k) ==
  /\ mutating = NoMutation
  /\ k \in 1..Len(muts)
  /\ muts[k].net = "sent"
  /\ muts' = [muts EXCEPT ![k].net = "err"]
  /\ ev' = NoEvent
  /\ UNCHANGED <<serverVars, host, retryer, widgetVars, heap, cache, columns, mutating, creates,
                 fetch, hist, lastApplied, movesLeft, createsLeft, ncalls>>

\* useUpdateTask.onError: back to the array taken in onMutate
OnErrorCache(h, c, cols, previousTasks) ==
  SetQueryData(h, c, cols, Values(h, previousTasks))

\* useUpdateTask.onSettled: invalidateQueries starts a new fetch of the query
OnSettledFetch(f) == Sent

\* the response of mutation k arrives: onSuccess or onError, then onSettled
UpdateSettle(k) ==
  /\ mutating = NoMutation
  /\ k \in 1..Len(muts)
  /\ muts[k].net \in {"ok", "err"}
  /\ \E back \in {OnErrorCache(heap, cache, columns, muts[k].snap)} :
     LET m == muts[k]
         rest == RemoveAt(muts, k)
     IN /\ IF m.net = "err"
           THEN Store(back.heap, back.cache, back.columns, rest)
           ELSE Store(heap, cache, columns, rest)
        /\ fetch' = OnSettledFetch(fetch)
        /\ hist' = [hist EXCEPT ![m.mid].result = m.net]
        /\ ev' = [type |-> IF m.net = "ok" THEN "onSuccess" ELSE "onError",
                  of |-> "update", mid |-> m.mid, pre |-> m.pre,
                  first |-> m.first, base |-> m.base,
                  toasts |->
                    HookToasts(m.net) \o
                    (IF AwaitsResponse(host)
                     THEN DragEndToasts(OnTaskUpdateRejects(host, m.net))
                     ELSE <<>>)]
  /\ UNCHANGED <<serverVars, host, retryer, widgetVars, mutating, creates, lastApplied, movesLeft,
                 createsLeft, ncalls>>

\* ------------------------------------------------------------ tasks query
\* GET /api/tasks answers the running fetch
ServerGetTasks ==
  /\ mutating = NoMutation
  /\ fetch.st = "sent"
  /\ fetch' = [st |-> "resp", data |-> GetTasks(dbTasks, Me)]
  /\ ev' = NoEvent
  /\ UNCHANGED <<serverVars, host, retryer, widgetVars, heap, cache, columns, mutating, muts,
                 creates, hist, lastApplied, movesLeft, createsLeft, ncalls>>

\* the answer becomes the query data
FetchSettle ==
  /\ mutating = NoMutation
  /\ fetch.st = "resp"
  /\ \E new \in {SetQueryData(heap, cache, columns, fetch.data)} :
       Store(new.heap, new.cache, new.columns, muts)
  /\ fetch' = Idle
  /\ ev' = NoEvent
  /\ UNCHANGED <<serverVars, host, retryer, widgetVars, mutating, creates, hist, lastApplied,
                 movesLeft, createsLeft, ncalls>>

\* ------------------------------------------------------ create mutation
\* TaskForm.onSubmit: createTaskMutation.mutate(payload), one at a time
FormTitleLens == {3, TitleMax}

CreateMutate(req) ==
  /\ mutating = NoMutation
  /\ createsLeft > 0
  /\ creates = <<>>
  /\ createsLeft' = createsLeft - 1
  /\ creates' = <<[req |-> req, net |-> "sent", data |-> <<>>]>>
  /\ ev' = NoEvent
  /\ UNCHANGED <<serverVars, host, retryer, widgetVars, heap, cache, columns, mutating, muts, fetch,
                 hist, lastApplied, movesLeft, ncalls>>

\* POST /api/tasks handles the request of the create mutation
ServerPostTask ==
  /\ mutating = NoMutation
  /\ creates # <<>>
  /\ creates[1].net = "sent"
  /\ LET code == PostTaskStatus(dbProjects, Me, creates[1].req)
     IN /\ dbTasks' = PostTaskDb(dbTasks, dbProjects, nextId, Me, creates[1].req)
        /\ dbTaskTags' = PostTaskTags(dbTaskTags, dbProjects, nextId, Me, creates[1].req)
        /\ nextId' = IF code = 201 THEN nextId + 1 ELSE nextId
        /\ creates' = [creates EXCEPT
                         ![1].net = IF code = 201 THEN "ok" ELSE "err",
                         ![1].data = IF code = 201
                                     THEN <<ClientTask(dbTasks', nextId)>> ELSE <<>>]
  /\ ev' = NoEvent
  /\ UNCHANGED <<dbProjects, clock, host, retryer, widgetVars, heap, cache, columns, mutating, muts,
                 fetch, hist, lastApplied, movesLeft, createsLeft, ncalls>>

\* the create request fails for good
FailPostTask ==
  /\ mutating = NoMutation
  /\ creates # <<>>
  /\ creates[1].net = "sent"
  /\ creates' = [creates EXCEPT ![1].net = "err"]
  /\ ev' = NoEvent
  /\ UNCHANGED <<serverVars, host, retryer, widgetVars, heap, cache, columns, mutating, muts, fetch,
                 hist, lastApplied, movesLeft, createsLeft, ncalls>>

\* useCreateTask.onSuccess: [...old, data]
OnCreateCache(h, c, cols, data) ==
  SetQueryData(h, c, cols, Values(h, c) \o <<data>>)

\* useCreateTask has no onSettled: the running fetch is left as it is
OnCreateSettledFetch(f) == f

\* the response of the create mutation arrives: onSuccess or onError
CreateSettle ==
  /\ mutating = NoMutation
  /\ creates # <<>>
  /\ creates[1].net \in {"ok", "err"}
  /\ LET m == creates[1]
     IN /\ IF m.net = "ok"
           THEN \E new \in {OnCreateCache(heap, cache, columns, m.data[1])} :
                  Store(new.heap, new.cache, new.columns, muts)
           ELSE UNCHANGED <<heap, cache, columns, muts>>
        /\ ev' = [type |-> IF m.net = "ok" THEN "onSuccess" ELSE "onError",
                  of |-> "create"]
  /\ creates' = <<>>
  /\ fetch' = OnCreateSettledFetch(fetch)
  /\ UNCHANGED <<serverVars, host, retryer, widgetVars, mutating, hist, lastApplied, movesLeft,
                 createsLeft, ncalls>>

\* ----------------------------------------------- the endpoints on their own
ApiTitleLens == {0, 1, TitleMax, TitleMax + 1}
ApiStatuses == Statuses \cup {NoStatus, "ARCHIVED"}
ApiOrders == 0..MaxOrder \cup {NoOrder}
ApiIds == 1..(InitTasks + 1)
BulkItems == [id : ApiIds, status : Statuses, order : 0..MaxOrder]

ApiPostTask(uid, req) ==
  /\ ncalls < MaxApiCalls
  /\ ncalls' = ncalls + 1
  /\ LET code == PostTaskStatus(dbProjects, uid, req)
     IN /\ dbTasks' = PostTaskDb(dbTasks, dbProjects, nextId, uid, req)
        /\ dbTaskTags' = PostTaskTags(dbTaskTags, dbProjects, nextId, uid, req)
        /\ nextId' = IF code = 201 THEN nextId + 1 ELSE nextId
        /\ ev' = [type |-> "api", op |-> "POST", uid |-> uid, code |-> code,
                  id |-> nextId, status |-> "TODO", was |-> "", req |-> req,
                  message |-> PostTaskMessage(dbProjects, uid, req),
                  data |-> PostTaskData(dbTasks, dbTaskTags, dbProjects, nextId,
                                        uid, req)]
  /\ UNCHANGED <<dbProjects, clock, clientVars, retryer, widgetVars>>

ApiPutTask(uid, id, upd) ==
  /\ ncalls < MaxApiCalls
  /\ ncalls' = ncalls + 1
  /\ dbTasks' = PutTaskDb(dbTasks, dbProjects, uid, id, upd, clock)
  /\ dbTaskTags' = PutTaskTags(dbTasks, dbTaskTags, dbProjects, uid, id, upd)
  /\ clock' = Tick(dbTasks, dbTasks', clock)
  /\ ev' = [type |-> "api", op |-> "PUT", uid |-> uid,
            code |-> PutTaskStatus(dbTasks, dbProjects, uid, id, upd), id |-> id,
            status |-> upd.status,
            was |-> IF id \in DOMAIN dbTasks THEN dbTasks[id].status ELSE "",
            req |-> upd,
            data |-> PutTaskData(dbTasks, dbTaskTags, dbProjects, uid, id, upd,
                                 clock)]
  /\ UNCHANGED <<dbProjects, nextId, clientVars, retryer, widgetVars>>

\* the items of one bulk request are written in any order
ApiBulkUpdate(uid, items) ==
  /\ ncalls < MaxApiCalls
  /\ ncalls' = ncalls + 1
  /\ dbTasks' = BulkDb(dbTasks, uid, items, clock)
  /\ clock' = Tick(dbTasks, dbTasks', clock)
  /\ ev' = [type |-> "api", op |-> "BULK", uid |-> uid,
            code |-> BulkStatus(dbTasks, uid, items), id |-> 0, status |-> "",
            was |-> "", data |-> NoData]
  /\ UNCHANGED <<dbProjects, dbTaskTags, nextId, clientVars, retryer, widgetVars>>

\* GET /api/tasks
GetTasksStatus(uid) == IF uid = NoUser THEN 401 ELSE 200

ApiGetTasks(uid) ==
  /\ ncalls < MaxApiCalls
  /\ ncalls' = ncalls + 1
  /\ ev' = [type |-> "api", op |-> "LIST", uid |-> uid,
            code |-> GetTasksStatus(uid), id |-> 0,
            data |-> IF GetTasksStatus(uid) = 200 THEN GetTasks(dbTasks, uid)
                     ELSE NoData]
  /\ UNCHANGED <<serverVars, clientVars, retryer, widgetVars>>

ApiGetTask(uid, id) ==
  /\ ncalls < MaxApiCalls
  /\ ncalls' = ncalls + 1
  /\ ev' = [type |-> "api", op |-> "GET", uid |-> uid,
            code |-> GetTaskStatus(dbTasks, uid, id), id |-> id,
            data |-> GetTaskData(dbTasks, dbTaskTags, uid, id)]
  /\ UNCHANGED <<serverVars, clientVars, retryer, widgetVars>>

ApiDeleteTask(uid, id) ==
  /\ ncalls < MaxApiCalls
  /\ ncalls' = ncalls + 1
  /\ dbTasks' = DeleteTaskDb(dbTasks, uid, id)
  /\ dbTaskTags' = DeleteTaskTags(dbTasks, dbTaskTags, uid, id)
  /\ ev' = [type |-> "api", op |-> "DELETE", uid |-> uid,
            code |-> DeleteTaskStatus(dbTasks, uid, id), id |-> id,
            data |-> NoData]
  /\ UNCHANGED <<dbProjects, nextId, clock, clientVars, retryer, widgetVars>>

ApiGetProject(uid, id) ==
  /\ ncalls < MaxApiCalls
  /\ ncalls' = ncalls + 1
  /\ ev' = [type |-> "api", op |-> "GET_PROJECT", uid |-> uid,
            code |-> GetProjectStatus(dbProjects, uid, id), id |-> id,
            data |-> GetProjectData(dbTasks, dbProjects, uid, id)]
  /\ UNCHANGED <<serverVars, clientVars, retryer, widgetVars>>

ApiPutProject(uid, id, name) ==
  /\ ncalls < MaxApiCalls
  /\ ncalls' = ncalls + 1
  /\ dbProjects' = PutProjectDb(dbProjects, uid, id, name)
  /\ ev' = [type |-> "api", op |-> "PUT_PROJECT", uid |-> uid,
            code |-> PutProjectStatus(dbProjects, uid, id), id |-> id,
            data |-> IF PutProjectStatus(dbProjects, uid, id) = 200
                     THEN <<[id |-> id, name |-> dbProjects'[id].name]>>
                     ELSE NoData]
  /\ UNCHANGED <<dbTasks, dbTaskTags, nextId, clock, clientVars, retryer, widgetVars>>

ApiDeleteProject(uid, id) ==
  /\ ncalls < MaxApiCalls
  /\ ncalls' = ncalls + 1
  /\ dbProjects' = DeleteProjectProjects(dbProjects, uid, id)
  /\ dbTasks' = DeleteProjectDb(dbTasks, dbProjects, uid, id)
  /\ dbTaskTags' = DeleteProjectTags(dbTasks, dbTaskTags, dbProjects, uid, id)
  /\ ev' = [type |-> "api", op |-> "DELETE_PROJECT", uid |-> uid,
            code |-> DeleteProjectStatus(dbProjects, uid, id), id |-> id,
            data |-> NoData]
  /\ UNCHANGED <<nextId, clock, clientVars, retryer, widgetVars>>

ApiPost ==
  \E uid \in Users, n \in ApiTitleLens, p \in Projects :
    ApiPostTask(uid, [titleLen |-> n, projectId |-> p, tagIds |-> {}])

ApiPut ==
  \E uid \in Users, id \in ApiIds, st \in ApiStatuses, ord \in ApiOrders :
    ApiPutTask(uid, id, StatusAndOrder(st, ord))

ApiBulk ==
  \E uid \in Users :
    \/ \E a \in BulkItems : ApiBulkUpdate(uid, <<a>>)
    \/ \E a \in BulkItems, b \in BulkItems : ApiBulkUpdate(uid, <<a, b>>)

\* the endpoints with sessions of both users and without a session, on
\* existing and missing resources
StoreUsers == Users \cup {NoUser}
StoreIds == 1..(InitTasks + 2)
StoreProjectIds == Projects \cup {"p3"}
StoreNames == {NoName, "n1"}

StoreCreates ==
  {[titleLen |-> n, projectId |-> "p1", tagIds |-> {}] : n \in ApiTitleLens}
  \cup {[titleLen |-> 1, projectId |-> p, tagIds |-> {}] : p \in {"p2", "p3", ""}}
  \cup {[titleLen |-> n, projectId |-> p, tagIds |-> {"g1"}] :
          n \in {0, 1}, p \in Projects}
  \cup {[titleLen |-> TitleMax, projectId |-> "p1", tagIds |-> Tags]}

StoreUpdates ==
  {StatusAndOrder(st, NoOrder) : st \in {NoStatus, "DONE", "ARCHIVED"}}
  \cup {[StatusAndOrder(NoStatus, 0) EXCEPT !.projectId = p] :
          p \in StoreProjectIds \cup {""}}
  \cup {[StatusAndOrder(st, NoOrder) EXCEPT !.hasTagIds = TRUE, !.tagIds = S] :
          st \in {"REVIEW", "ARCHIVED"}, S \in {{}, {"g2"}, Tags}}
  \cup {[StatusAndOrder(NoStatus, NoOrder) EXCEPT
           !.projectId = "p2", !.hasTagIds = TRUE, !.tagIds = {"g2"}]}

StorePost == \E uid \in StoreUsers, req \in StoreCreates : ApiPostTask(uid, req)
StorePut ==
  \E uid \in StoreUsers, id \in StoreIds, upd \in StoreUpdates :
    ApiPutTask(uid, id, upd)
StoreBulk == \E uid \in StoreUsers, a \in BulkItems : ApiBulkUpdate(uid, <<a>>)
StoreList == \E uid \in StoreUsers : ApiGetTasks(uid)
StoreGet == \E uid \in StoreUsers, id \in StoreIds : ApiGetTask(uid, id)
StoreDelete == \E uid \in StoreUsers, id \in StoreIds : ApiDeleteTask(uid, id)
StoreGetProject ==
  \E uid \in StoreUsers, id \in StoreProjectIds : ApiGetProject(uid, id)
StorePutProject ==
  \E uid \in StoreUsers, id \in StoreProjectIds, name \in StoreNames :
    ApiPutProject(uid, id, name)
StoreDeleteProject ==
  \E uid \in StoreUsers, id \in StoreProjectIds : ApiDeleteProject(uid, id)

\* ------------------------------------------------- the retry options
\* the functions React Query runs under defaultOptions: the query functions
\* of useTasks and useProjects, the mutation functions of useUpdateTask and
\* useCreateTask
QueryFns == {"fetchTasks", "fetchProjects"}
MutationFns == {"updateTask", "createTask"}

\* what a request meets: a response with its status, or none at all
NoResponse == 0
Responses == {200, 401, 403, 500, NoResponse}

\* a property an object does not have
Undefined == -1

\* `throw new Error(errorData.error || ...)`: the error carries the text of
\* the response and no `status`; a request without response rejects with
\* fetch's TypeError, which has none either
ErrorText(response) ==
  CASE response = 401 -> "Unauthorized"
    [] response = 403 -> "Invalid origin"
    [] response = 500 -> "Internal server error"
    [] OTHER -> "Failed to fetch"

ThrownError(response) == [message |-> ErrorText(response), status |-> Undefined]

\* a retry option that allows a fourth retry
QueriesRetryFour(failureCount, error) ==
  IF error.status = 401 \/ error.status = 403 THEN FALSE
  ELSE failureCount < 4

\* defaultOptions.queries.retry
QueriesRetry(failureCount, error) ==
  IF error.status = 401 \/ error.status = 403 THEN FALSE
  ELSE failureCount < 3

\* defaultOptions.mutations.retry
MutationsRetry(failureCount, error) ==
  IF error.status = 401 \/ error.status = 403 THEN FALSE
  ELSE failureCount < 1

RetryOption(fn, failureCount, error) ==
  IF fn \in QueryFns THEN QueriesRetry(failureCount, error)
  ELSE MutationsRetry(failureCount, error)

\* useQuery / mutate: the function is run for the first time
RetryerStart(fn) ==
  /\ retryer.st = "idle"
  /\ retryer' = [fn |-> fn, st |-> "running", failureCount |-> 0, attempts |-> <<>>]
  /\ UNCHANGED <<serverVars, clientVars, ncalls, ev, widgetVars>>

\* one run of the function ends: it resolves, or it throws and the retry
\* option is asked with the failures counted so far; a retry is waited for,
\* a refusal surfaces the error
RetryerRun(response) ==
  /\ retryer.st = "running"
  /\ LET tries == Append(retryer.attempts, response)
     IN retryer' =
          IF response = 200
          THEN [retryer EXCEPT !.st = "success", !.attempts = tries]
          ELSE IF RetryOption(retryer.fn, retryer.failureCount, ThrownError(response))
          THEN [retryer EXCEPT !.st = "waiting", !.attempts = tries,
                               !.failureCount = @ + 1]
          ELSE [retryer EXCEPT !.st = "error", !.attempts = tries]
  /\ UNCHANGED <<serverVars, clientVars, ncalls, ev, widgetVars>>

\* the retry delay is over: the function is run again
RetryerContinue ==
  /\ retryer.st = "waiting"
  /\ retryer' = [retryer EXCEPT !.st = "running"]
  /\ UNCHANGED <<serverVars, clientVars, ncalls, ev, widgetVars>>

RetryStart == \E fn \in QueryFns \cup MutationFns : RetryerStart(fn)
RetryRun == \E response \in Responses : RetryerRun(response)

\* ----------------------------------------------------------- specifications
Create ==
  \E n \in FormTitleLens :
    CreateMutate([titleLen |-> n, projectId |-> "p1", tagIds |-> {}])
ServerPut == \E k \in 1..Len(muts) : ServerPutTask(k)
FailPut == \E k \in 1..Len(muts) : FailPutTask(k)
Settle == \E k \in 1..Len(muts) : UpdateSettle(k)

\* the board, the update mutation and the tasks query
Next ==
  \/ Drop
  \/ OnMutate
  \/ ServerPut
  \/ FailPut
  \/ Settle
  \/ ServerGetTasks
  \/ FetchSettle

Spec == Init /\ [][Next]_vars

\* the same beside the create mutation of the task form
NextForm ==
  \/ Drop
  \/ OnMutate
  \/ ServerPut
  \/ FailPut
  \/ Settle
  \/ ServerGetTasks
  \/ FetchSettle
  \/ Create
  \/ ServerPostTask
  \/ FailPostTask
  \/ CreateSettle

SpecForm == InitForm /\ [][NextForm]_vars

\* every request is answered and every answer is delivered; the user is not
\* obliged to act
Fairness ==
  /\ WF_vars(OnMutate)
  /\ WF_vars(ServerPut \/ FailPut)
  /\ WF_vars(Settle)
  /\ WF_vars(ServerGetTasks)
  /\ WF_vars(FetchSettle)
  /\ WF_vars(ServerPostTask \/ FailPostTask)
  /\ WF_vars(CreateSettle)

LiveSpecForm == SpecForm /\ Fairness

NextApi == ApiPost \/ ApiPut \/ ApiBulk

SpecApi == Init /\ [][NextApi]_vars

\* every endpoint of the task and project routes, called directly
NextStore ==
  \/ StorePost
  \/ StorePut
  \/ StoreBulk
  \/ StoreList
  \/ StoreGet
  \/ StoreDelete
  \/ StoreGetProject
  \/ StorePutProject
  \/ StoreDeleteProject

SpecStore == InitStore /\ [][NextStore]_vars

\* creations, single updates and bulk updates; the bulk request carries what
\* its sender puts into it: `taskUpdate: any` is handed to prisma unchecked,
\* so a status outside the board's lanes and a negative order are among them
WideIds == {1, InitTasks + 1, InitTasks + 2}
WideItems == [id : WideIds, status : {"REVIEW", "ARCHIVED"}, order : {-1, 1}]
WideRequests ==
  {<<a>> : a \in WideItems} \cup {<<a, b>> : a \in WideItems, b \in WideItems}
WideBulk == \E uid \in StoreUsers, items \in WideRequests : ApiBulkUpdate(uid, items)

NextBulk == StorePost \/ StorePut \/ WideBulk

SpecBulk == InitStore /\ [][NextBulk]_vars

\* bulk updates alone
SpecBulkOnly == InitStore /\ [][WideBulk]_vars

\* ------------------------------------------------------ AnalyticsCharts
MaxChartTasks == 3
ChartTask == [status : Statuses, projectId : Projects]
ChartProjects == <<"p1", "p2">>

CountDone(tasks) == Cardinality({i \in 1..Len(tasks) : tasks[i].status = "DONE"})

\* a rate that counts the tasks which are not done
CompletionRateOfPending(completed, total) ==
  IF total > 0 THEN [num |-> (total - completed) * 100, den |-> total]
  ELSE [num |-> 0, den |-> 1]

\* totalTasks > 0 ? (completedTasks / totalTasks) * 100 : 0, kept as the
\* fraction num / den
CompletionRate(completed, total) ==
  IF total > 0 THEN [num |-> completed * 100, den |-> total]
  ELSE [num |-> 0, den |-> 1]

\* toFixed(1): the rate rounded to the nearest tenth, in tenths of a percent
ToFixed1(rate) == (rate.num * 20 + rate.den) \div (2 * rate.den)

\* the `analytics` memo
Analytics(tasks) ==
  LET totalTasks == Len(tasks)
      completedTasks == CountDone(tasks)
      completionRate == CompletionRate(completedTasks, totalTasks)
  IN [totalTasks |-> totalTasks,
      completedTasks |-> completedTasks,
      pendingTasks |-> totalTasks - completedTasks,
      completionRate |-> completionRate,
      shown |-> ToFixed1(completionRate)]

\* the callback of projects.map in the `projectProgress` memo
ProjectItem(tasks, project) ==
  LET projectTasks == SelectSeq(tasks, LAMBDA t : t.projectId = project)
      completedTasks == CountDone(projectTasks)
  IN [name |-> project,
      total |-> Len(projectTasks),
      completed |-> completedTasks,
      completion |-> CompletionRate(completedTasks, Len(projectTasks))]

\* the `projectProgress` memo: the projects that have tasks
ProjectProgress(tasks, projects) ==
  SelectSeq([i \in 1..Len(projects) |-> ProjectItem(tasks, projects[i])],
            LAMBDA item : item.total > 0)

Rendered(tasks) ==
  [summary |-> Analytics(tasks),
   projectProgress |-> ProjectProgress(tasks, ChartProjects)]

\* the component renders with a new tasks prop
RenderCharts(tasks) ==
  /\ chartTasks' = tasks
  /\ analytics' = Rendered(tasks)
  /\ UNCHANGED <<serverVars, clientVars, ncalls, ev, retryer, limiterVars, panelVars>>

\* the task list of the page changes by one task at a time
ChartChanges(tasks) ==
  {Append(tasks, t) : t \in {x \in ChartTask : Len(tasks) < MaxChartTasks}}
  \cup {RemoveAt(tasks, i) : i \in 1..Len(tasks)}
  \cup {[tasks EXCEPT ![i].status = st] : i \in 1..Len(tasks), st \in Statuses}

NextCharts == \E tasks \in ChartChanges(chartTasks) \ {chartTasks} : RenderCharts(tasks)

\* the page as the store of one user with TODO tasks shows it
InitPage ==
  /\ InitCore(NoOthers, 0, 0)
  /\ host = "dashboard"
  /\ \A t \in 1..InitTasks : dbTasks[t].status = "TODO"

InitCharts ==
  /\ InitPage
  /\ chartTasks = <<>>
  /\ analytics = Rendered(<<>>)
  /\ LimiterIdle
  /\ PanelIdle

SpecCharts == InitCharts /\ [][NextCharts]_vars

\* ------------------------------------------------------- checkRateLimit
MaxCalls == 4
MaxNow == 3
MaxRequests == 2
MaxWindowMs == 2
Identifiers == {"a", "b"}

\* `!userLimit || now > userLimit.resetTime`
WindowOver(map, identifier, t) ==
  identifier \notin DOMAIN map \/ t > map[identifier].resetTime

\* the value checkRateLimit returns
RateLimitResult(map, identifier, maxRequests, t) ==
  IF WindowOver(map, identifier, t) THEN TRUE
  ELSE IF map[identifier].count >= maxRequests THEN FALSE
  ELSE TRUE

\* rateLimitMap after the call
RateLimitMapAfter(map, identifier, maxRequests, windowMs, t) ==
  IF WindowOver(map, identifier, t)
  THEN (identifier :> [count |-> 1, resetTime |-> t + windowMs]) @@ map
  ELSE IF map[identifier].count >= maxRequests THEN map
  ELSE [map EXCEPT ![identifier].count = @ + 1]

CheckRateLimit(identifier) ==
  /\ Len(calls) < MaxCalls
  /\ rateLimitMap' = RateLimitMapAfter(rateLimitMap, identifier, limit.maxRequests,
                                       limit.windowMs, dateNow)
  /\ calls' = Append(calls,
                 [identifier |-> identifier, now |-> dateNow,
                  result |-> RateLimitResult(rateLimitMap, identifier,
                                             limit.maxRequests, dateNow)])
  /\ ev' = [type |-> "checkRateLimit", identifier |-> identifier,
            result |-> RateLimitResult(rateLimitMap, identifier,
                                       limit.maxRequests, dateNow)]
  /\ UNCHANGED <<serverVars, clientVars, ncalls, retryer, chartVars, panelVars,
                 dateNow, limit>>

\* a millisecond passes
TimePasses ==
  /\ dateNow < MaxNow
  /\ dateNow' = dateNow + 1
  /\ ev' = NoEvent
  /\ UNCHANGED <<serverVars, clientVars, ncalls, retryer, chartVars, panelVars,
                 rateLimitMap, limit, calls>>

NextRateLimit == (\E identifier \in Identifiers : CheckRateLimit(identifier)) \/ TimePasses

InitRateLimit ==
  /\ InitPage
  /\ ChartsIdle
  /\ PanelIdle
  /\ rateLimitMap = NoEntries
  /\ dateNow = 0
  /\ limit \in [maxRequests : 0..MaxRequests, windowMs : 0..MaxWindowMs]
  /\ calls = <<>>

SpecRateLimit == InitRateLimit /\ [][NextRateLimit]_vars

\* --------------------------------------------------------- Notifications
MaxPanelTasks == 2
\* a task as the alerts read it: where its deadline lies (none, passed, today,
\* within the week), its status, its priority
PanelTask == [due : {"none", "overdue", "today", "week"},
              status : {"TODO", "DONE"},
              priority : {"URGENT", "LOW"}]

\* `deadline-${task.id}`
AlertId(taskId) == <<"deadline", taskId>>

\* the daysRemaining of the alert: differenceInDays(now, deadline) of a
\* deadline two days back, 0 for today, differenceInDays(deadline, now) of a
\* deadline three days ahead
DaysRemaining(task) ==
  CASE task.due = "overdue" -> 2
    [] task.due = "today" -> 0
    [] OTHER -> 3

\* the deadlineAlerts memo, as the set of the tasks that have an alert (the
\* order the alerts are listed in is left out)
DeadlineAlerts(tasks, dismissed) ==
  {t \in DOMAIN tasks :
     /\ tasks[t].due # "none"
     /\ tasks[t].status # "DONE"
     /\ AlertId(t) \notin dismissed}

\* the filteredAlerts memo
FilteredAlerts(tasks, dismissed, f) ==
  CASE f = "urgent" ->
         {t \in DeadlineAlerts(tasks, dismissed) :
            DaysRemaining(tasks[t]) <= 0 \/ tasks[t].priority = "URGENT"}
    [] f = "today" ->
         {t \in DeadlineAlerts(tasks, dismissed) : DaysRemaining(tasks[t]) = 0}
    [] OTHER -> DeadlineAlerts(tasks, dismissed)

\* the panel shows its buttons when there is an alert to list
PanelListed == FilteredAlerts(panelTasks, dismissedNotifications, filter)

\* the X of one alert
DismissNotification(taskId) ==
  /\ taskId \in PanelListed
  /\ dismissedNotifications' = dismissedNotifications \cup {AlertId(taskId)}
  /\ everDismissed' = everDismissed \cup {taskId}
  /\ ev' = [type |-> "dismissNotification", taskId |-> taskId]
  /\ UNCHANGED <<serverVars, clientVars, ncalls, retryer, chartVars, limiterVars,
                 panelTasks, filter>>

\* the X of the header
ClearAllNotifications ==
  /\ PanelListed # {}
  /\ dismissedNotifications' =
       {AlertId(t) : t \in DeadlineAlerts(panelTasks, dismissedNotifications)}
  /\ everDismissed' =
       everDismissed \cup DeadlineAlerts(panelTasks, dismissedNotifications)
  /\ ev' = [type |-> "clearAllNotifications"]
  /\ UNCHANGED <<serverVars, clientVars, ncalls, retryer, chartVars, limiterVars,
                 panelTasks, filter>>

SetFilter(f) ==
  /\ PanelListed # {}
  /\ filter' = f
  /\ ev' = [type |-> "setFilter"]
  /\ UNCHANGED <<serverVars, clientVars, ncalls, retryer, chartVars, limiterVars,
                 panelTasks, dismissedNotifications, everDismissed>>

NextPanel ==
  \/ \E taskId \in DOMAIN panelTasks : DismissNotification(taskId)
  \/ ClearAllNotifications
  \/ \E f \in {"all", "urgent", "today"} : SetFilter(f)

InitPanel ==
  /\ InitPage
  /\ ChartsIdle
  /\ LimiterIdle
  /\ panelTasks \in [1..MaxPanelTasks -> PanelTask]
  /\ dismissedNotifications = {}
  /\ filter = "all"
  /\ everDismissed = {}

SpecPanel == InitPanel /\ [][NextPanel]_vars

\* one request under the retry options; in the live specification every
\* run ends and every delay passes
NextRetry == RetryStart \/ RetryRun \/ RetryerContinue

SpecRetry == Init /\ [][NextRetry]_vars

LiveSpecRetry == SpecRetry /\ WF_vars(RetryRun) /\ WF_vars(RetryerContinue)

\* ------------------------------------------------------------------ claims
Moved == ev.type = "handleDragEnd" /\ ev.dst # <<>> /\ ev.dst # ev.src

\* C1: when the update request of a move fails, the task cache after the
\* rollback equals the task list as it was right before the drag was handled,
\* the order values of the other tasks of the destination lane included.
C1_RollbackRestoresPreDragList ==
  (ev.type = "onError" /\ ev.of = "update") => CacheValues = ev.pre

\* C2: after handleDragEnd has moved task T from lane A index i to lane B
\* index j, the board shows T in lane B at position j and in no other place,
\* with status B and order j, and the tasks of lane B carry the orders
\* 0, 1, ..., n-1 in display order (A # B or A = B).
C2_MovedTaskAtDestination ==
  Moved =>
    LET B == ev.dst[1]
        j == ev.dst[2]
        lane == LaneValues(B)
    IN /\ j + 1 \in 1..Len(lane)
       /\ lane[j + 1] .id = ev.id
       /\ lane[j + 1].status = B
       /\ lane[j + 1].order = j
       /\ \A k \in 1..Len(lane) : lane[k].order = k - 1
       /\ \A l \in Statuses : \A k \in 1..Len(LaneValues(l)) :
            LaneValues(l)[k].id = ev.id => (l = B /\ k = j + 1)

C2_Witness ==
  /\ Moved
  /\ ev.src[1] = ev.dst[1]
  /\ Len(columns[ev.dst[1]]) >= 2

C2_WitnessAcrossLanes ==
  /\ Moved
  /\ ev.src[1] # ev.dst[1]
  /\ Len(columns[ev.dst[1]]) >= 2
  /\ ev.dst[2] = 0

\* C3: a drop with no destination, or on the position the task came from,
\* changes nothing: lanes, task objects, cache, requests and store stay.
C3_IgnoredDropChangesNothing ==
  [][(ev'.type = "handleDragEnd" /\ (ev'.dst = <<>> \/ ev'.dst = ev'.src))
       => UNCHANGED <<heap, cache, columns, mutating, muts, fetch, hist, dbTasks>>]_vars

C3_Witness ==
  /\ ev.type = "handleDragEnd"
  /\ ev.dst = ev.src
  /\ movesLeft < MaxMoves

\* C4: onMutate of an update for task X leaves the cached list with the same
\* length and the same task at every position, X carrying the requested
\* status and order and every other task as it was, and the request is sent.
C4_OptimisticWrite ==
  [][ev'.type = "onMutate" =>
       LET X == mutating.taskId
           old == Values(heap, cache)
           new == Values(heap', cache')
       IN /\ Len(new) = Len(old)
          /\ \A i \in 1..Len(old) :
               IF old[i].id = X
               THEN new[i] = [old[i] EXCEPT !.status = mutating.status,
                                            !.order = mutating.order]
               ELSE new[i] = old[i]
          /\ Len(muts') = Len(muts) + 1
          /\ muts'[Len(muts')].taskId = X
          /\ muts'[Len(muts')].status = mutating.status
          /\ muts'[Len(muts')].order = mutating.order
          /\ muts'[Len(muts')].net = "sent"]_vars

C4_Witness ==
  /\ ev.type = "onMutate"
  /\ Len(muts) = 2
  /\ \E i \in 1..Len(cache) :
       /\ CacheValues[i].id = hist[ev.mid].taskId
       /\ CacheValues[i].status = hist[ev.mid].status
       /\ CacheValues[i].order = hist[ev.mid].order

\* C5, the part the update mutation bears out: every update mutation, when it
\* settles with success or with failure, leaves a newly started fetch of the
\* task collection running.
C5_UpdateSettleRefetches ==
  (ev.type \in {"onSuccess", "onError"} /\ ev.of = "update") => fetch = Sent

\* C5: every update mutation and every create mutation, when it
\* settles, leaves a newly started fetch of the task collection running.
C5_EverySettleRefetches ==
  ev.type \in {"onSuccess", "onError"} => fetch = Sent

C5_Witness ==
  /\ ev.type = "onError"
  /\ ev.of = "update"
  /\ fetch = Sent
  /\ creates # <<>>

ServerList == GetTasks(dbTasks, Me)

Quiet ==
  /\ mutating = NoMutation
  /\ muts = <<>>
  /\ creates = <<>>
  /\ fetch = Idle

\* C6, the part that update mutations bear out: when the user issues update
\* mutations only, and every request is answered, the task cache eventually equals the list the store
\* returns for the user and stays equal to it.
C6_UpdatesConverge ==
  [](createsLeft = MaxCreates) => <>[](CacheValues = ServerList)

\* C6: once the user has stopped and every request is answered,
\* whatever mutations were issued, the task cache equals the store's list.
C6_QuietCacheIsServerList ==
  (Quiet /\ movesLeft = 0 /\ createsLeft = 0) => CacheValues = ServerList

C6_Witness ==
  /\ Quiet
  /\ createsLeft = MaxCreates
  /\ movesLeft = 0
  /\ Len(hist) = MaxFormMoves
  /\ CacheValues = ServerList
  /\ CacheValues # [i \in 1..InitTasks |->
                      [id |-> i, status |-> CacheValues[i].status, order |-> i - 1,
                       completedAt |-> CacheValues[i].completedAt]]

CacheHas(t, st, ord) ==
  /\ \E i \in 1..Len(cache) : CacheValues[i].id = t
  /\ \A i \in 1..Len(cache) :
       CacheValues[i].id = t => CacheValues[i].status = st /\ CacheValues[i].order = ord

Succeeded(t) == {a \in 1..Len(hist) : hist[a].taskId = t /\ hist[a].result = "ok"}
Requests(t) == {a \in 1..Len(hist) : hist[a].taskId = t}

\* C7, what the refetch does bring: once the update requests have settled and the refetch
\* that follows has completed, a task that some request updated carries in
\* the cache the status and order of the request the store applied last,
\* which is the last-issued one only if the store applied them in that order.
C7_LastAppliedWins ==
  Quiet => \A t \in DOMAIN lastApplied :
             CacheHas(t, hist[lastApplied[t]].status, hist[lastApplied[t]].order)

\* C7: two successful update requests for one task, issued r1
\* then r2: once both have settled and the refetch has completed, the cached
\* task carries the status and order of r2.
C7_LastIssuedWins ==
  Quiet => \A t \in DOMAIN lastApplied : \A r1 \in Succeeded(t), r2 \in Succeeded(t) :
             (r1 < r2 /\ \A c \in Requests(t) : c <= r2)
               => CacheHas(t, hist[r2].status, hist[r2].order)

C7_Witness ==
  /\ Quiet
  /\ \E t \in DOMAIN lastApplied : \E r1 \in Succeeded(t), r2 \in Succeeded(t) :
       /\ r1 < r2
       /\ lastApplied[t] = r1
       /\ <<hist[r1].status, hist[r1].order>> # <<hist[r2].status, hist[r2].order>>
       /\ CacheHas(t, hist[r1].status, hist[r1].order)

InFlight == Len(muts) + (IF mutating = NoMutation THEN 0 ELSE 1)

\* C8, the part the dashboard page bears out: on the dashboard page at most one update request is in
\* flight at any time, because the board is hidden while the mutation is
\* pending.
C8_DashboardOneInFlight == host = "dashboard" => InFlight <= 1

\* C8: from one client at most one update request per task id
\* is in flight at any time.
C8_OneInFlightPerTask ==
  \A a \in 1..Len(muts), b \in 1..Len(muts) :
    a # b => muts[a].taskId # muts[b].taskId

C8_Witness ==
  /\ host = "dashboard"
  /\ Len(muts) = 1
  /\ movesLeft > 0
  /\ \A l \in Statuses : Len(columns[l]) > 0 => ~ENABLED HandleDragEnd(l, 0, FALSE, l, 0)

C10_CompletedIffDone ==
  \A t \in DOMAIN dbTasks : (dbTasks[t].completedAt # Null) <=> (dbTasks[t].status = "DONE")

\* the entities, as a request may change them
StoreKept == UNCHANGED <<dbTasks, dbProjects, dbTaskTags>>

TaskOps == {"GET", "PUT", "DELETE"}
ProjectOps == {"GET_PROJECT", "PUT_PROJECT", "DELETE_PROJECT"}

\* the call just answered named a task or a project that was stored with
\* another user as its owner
ByNonOwner ==
  /\ ev'.type = "api"
  /\ ev'.uid # NoUser
  /\ \/ /\ ev'.op \in TaskOps
        /\ ev'.id \in DOMAIN dbTasks
        /\ dbTasks[ev'.id].userId # ev'.uid
     \/ /\ ev'.op \in ProjectOps
        /\ ev'.id \in DOMAIN dbProjects
        /\ dbProjects[ev'.id].userId # ev'.uid

\* the task list read answers with tasks of the caller only, and all of them
ListOnlyOwn ==
  (ev'.type = "api" /\ ev'.op = "LIST" /\ ev'.code = 200)
    => /\ \A i \in 1..Len(ev'.data) :
            /\ ev'.data[i].id \in DOMAIN dbTasks
            /\ dbTasks[ev'.data[i].id].userId = ev'.uid
       /\ {ev'.data[i].id : i \in 1..Len(ev'.data)} = TaskIdsOf(dbTasks, ev'.uid)

C12_NoSessionUnauthorized ==
  [][(ev'.type = "api" /\ ev'.uid = NoUser)
       => /\ ev'.code = 401
          /\ ev'.data = NoData
          /\ StoreKept
          /\ nextId' = nextId]_vars

\* a delete of a stored task without a session: 401, and the task is there
C12_Witness ==
  /\ ev.type = "api" /\ ev.op = "DELETE" /\ ev.uid = NoUser /\ ev.code = 401
  /\ ev.id \in DOMAIN dbTasks
  /\ TagsOf(dbTaskTags, ev.id) # {}

\* C13: a task create or a single-task update answered 400 or 404 leaves
\* the entity store exactly as it was: tasks, projects, tag rows, id counter.
C13_RejectedChangesNothing ==
  [][(ev'.type = "api" /\ ev'.op \in {"POST", "PUT"} /\ ev'.code \in {400, 404})
       => (StoreKept /\ nextId' = nextId)]_vars

\* the owner of a task asked to move it to a project of another user and to
\* replace its tags: 404, project and tags of the task are the old ones
C13_Witness ==
  /\ ev.type = "api" /\ ev.op = "PUT" /\ ev.code = 404
  /\ OwnsTask(dbTasks, ev.uid, ev.id)
  /\ ev.req.hasTagIds
  /\ ev.req.projectId \notin {NoProject, dbTasks[ev.id].projectId}
  /\ TagsOf(dbTaskTags, ev.id) # ev.req.tagIds

\* the caller's TODO tasks in the store
TodoOf(db, uid) == {t \in DOMAIN db : db[t].userId = uid /\ db[t].status = "TODO"}

\* the place of task t in the list GET /api/tasks gives its owner
ListPlace(db, t) ==
  LET list == GetTasks(db, db[t].userId)
  IN CHOOSE i \in 1..Len(list) : list[i].id = t

\* C14: a successful create stores the task with status TODO and an order
\* one above the greatest order of the caller's TODO tasks (1 when there is
\* none), whatever other users' tasks and the caller's other lanes hold; the
\* new task is listed after every TODO task the caller had.
C14_CreateAppendsToTodo ==
  [][(ev'.type = "api" /\ ev'.op = "POST" /\ ev'.code = 201)
       => LET todo == TodoOf(dbTasks, ev'.uid)
              new == dbTasks'[ev'.id]
          IN /\ ev'.id \notin DOMAIN dbTasks
             /\ new.userId = ev'.uid
             /\ new.status = "TODO"
             /\ \A t \in todo : dbTasks[t].order < new.order
             /\ IF todo = {} THEN new.order = 1
                ELSE \E t \in todo : new.order = dbTasks[t].order + 1
             /\ \A t \in todo : ListPlace(dbTasks', t) < ListPlace(dbTasks', ev'.id)]_vars

\* Me created a task while holding a TODO task, a task of another lane with
\* an order not below the new one, and while another user held a TODO task
\* of a greater order
C14_Witness ==
  /\ ev.type = "api" /\ ev.op = "POST" /\ ev.code = 201 /\ ev.uid = Me
  /\ ev.id \in DOMAIN dbTasks
  /\ TodoOf(dbTasks, Me) \ {ev.id} # {}
  /\ \E t \in TaskIdsOf(dbTasks, Me) :
       dbTasks[t].status # "TODO" /\ dbTasks[t].order >= dbTasks[ev.id].order
  /\ \E t \in DOMAIN dbTasks :
       /\ dbTasks[t].userId # Me /\ dbTasks[t].status = "TODO"
       /\ dbTasks[t].order > dbTasks[ev.id].order

\* of the messages the create schema can raise, the ones that name the title
NamesTitle(message) == message = "Title is required"

\* a create by a signed-in caller whose fields other than the title are valid
CreateOtherwiseValid ==
  /\ ev.type = "api" /\ ev.op = "POST" /\ ev.uid # NoUser
  /\ OwnsProject(dbProjects, ev.uid, ev.req.projectId)

\* C15: a create whose other fields are valid succeeds when the title has 1
\* to 200 characters, and is otherwise rejected with 400 and a message that
\* names the title field.
C15_TitleErrorNamesTitle ==
  CreateOtherwiseValid =>
    IF ev.req.titleLen \in 1..TitleMax
    THEN ev.code = 201
    ELSE ev.code = 400 /\ NamesTitle(ev.message)

\* C15, the part about the outcome alone: such a create succeeds exactly for
\* the title lengths 1 to 200 and is rejected with 400 for the others.
C15_TitleLengthDecides ==
  CreateOtherwiseValid =>
    ev.code = IF ev.req.titleLen \in 1..TitleMax THEN 201 ELSE 400

C15_Witness ==
  /\ CreateOtherwiseValid
  /\ ev.req.titleLen = TitleMax
  /\ ev.code = 201
  /\ ev.id \in DOMAIN dbTasks

\* C16: after a successful single-task update whose body carries tagIds = S
\* the tag rows of the task are exactly S, also when S is empty; after one
\* whose body carries no tagIds they are the rows the task had.
C16_TagIdsReplaceTags ==
  [][(ev'.type = "api" /\ ev'.op = "PUT" /\ ev'.code = 200)
       => TagsOf(dbTaskTags', ev'.id) =
            IF ev'.req.hasTagIds THEN ev'.req.tagIds
            ELSE TagsOf(dbTaskTags, ev'.id)]_vars

\* the first call replaced the one tag of task 1 by the empty set
C16_Witness ==
  /\ ev.type = "api" /\ ev.op = "PUT" /\ ev.code = 200
  /\ ncalls = 1 /\ ev.id = 1
  /\ ev.req.hasTagIds /\ ev.req.tagIds = {}
  /\ TagsOf(dbTaskTags, 1) = {}

\* the first call updated task 1 without tagIds and its tag is still there
C16_WitnessNoTagIds ==
  /\ ev.type = "api" /\ ev.op = "PUT" /\ ev.code = 200
  /\ ncalls = 1 /\ ev.id = 1
  /\ ~ev.req.hasTagIds /\ ev.req.status = "DONE"
  /\ TagsOf(dbTaskTags, 1) = {"g1"}

\* a create or a single-task update that succeeded and whose body gave tag ids
SucceededWithTagIds ==
  /\ ev.type = "api"
  /\ \/ ev.op = "POST" /\ ev.code = 201 /\ ev.req.tagIds # {}
     \/ ev.op = "PUT" /\ ev.code = 200 /\ ev.req.hasTagIds

\* C17: the task returned by a successful create or single-task update that
\* gave tag ids shows exactly the tag rows stored for the task when the
\* request has completed.
C17_ReturnedTagsAreStoredTags ==
  SucceededWithTagIds => ev.data[1].tags = TagsOf(dbTaskTags, ev.id)

\* C17, the other bodies: a successful create or update that gave no tag ids
\* returns the task with the tag rows stored for it.
C17_ReturnedTagsWithoutTagIds ==
  (/\ ev.type = "api"
   /\ \/ ev.op = "POST" /\ ev.code = 201
      \/ ev.op = "PUT" /\ ev.code = 200
   /\ ~SucceededWithTagIds)
    => ev.data[1].tags = TagsOf(dbTaskTags, ev.id)

\* every stored task refers to a stored project and every tag row to a
\* stored task
RefIntegrity ==
  /\ \A t \in DOMAIN dbTasks : dbTasks[t].projectId \in DOMAIN dbProjects
  /\ \A a \in dbTaskTags : a[1] \in DOMAIN dbTasks

\* task t is given to user u by the task list read or by the single read
Retrievable(db, u, t) ==
  \/ GetTaskStatus(db, u, t) = 200
  \/ \E i \in 1..Len(GetTasks(db, u)) : GetTasks(db, u)[i].id = t

\* a deleted project takes its tasks out of reach of every user, and a
\* deleted task takes its tag rows with it
DeleteCascades ==
  /\ (ev'.type = "api" /\ ev'.op = "DELETE_PROJECT" /\ ev'.code = 200)
       => \A t \in DOMAIN dbTasks :
            dbTasks[t].projectId = ev'.id
              => \A u \in Users : ~Retrievable(dbTasks', u, t)
  /\ (ev'.type = "api" /\ ev'.op = "DELETE" /\ ev'.code = 200)
       => TagsOf(dbTaskTags', ev'.id) = {}

\* C18: after a project is deleted none of its tasks is given to any user by
\* the task list read or the single-task read, after a task is deleted none
\* of its tag rows is left, and at all times every stored task refers to a
\* stored project and every tag row to a stored task.
C18_DeletesCascade == []RefIntegrity /\ [][DeleteCascades]_vars

\* the first call deleted the project of Me: its tasks and their tag rows
\* are gone, the task of the other user and its tag row are there
C18_Witness ==
  /\ ev.type = "api" /\ ev.op = "DELETE_PROJECT" /\ ev.code = 200
  /\ ncalls = 1 /\ ev.id = "p1"
  /\ DOMAIN dbProjects = {"p2"}
  /\ DOMAIN dbTasks = {InitTasks + 1}
  /\ dbTaskTags = {<<InitTasks + 1, "g2">>}

Denied == {401, 403}

\* C19: a task read, a project read or a task mutation whose request is
\* answered 401 or 403 is attempted once: that attempt is the last one and
\* the error is surfaced, no retry is waited for.
C19_DeniedNotRetried ==
  \A i \in 1..Len(retryer.attempts) :
    retryer.attempts[i] \in Denied
      => (i = Len(retryer.attempts) /\ retryer.st = "error")

\* the attempts a function gets: the first and 3 retries for a read, the
\* first and 1 retry for a mutation
Budget(fn) == IF fn \in QueryFns THEN 4 ELSE 2

Settled == retryer.st \in {"success", "error"}

WithinBudget ==
  retryer.st # "idle" =>
    /\ Len(retryer.attempts) <= Budget(retryer.fn)
    /\ (/\ Len(retryer.attempts) = Budget(retryer.fn)
        /\ retryer.attempts[Len(retryer.attempts)] # 200) => retryer.st = "error"

\* C20: a read is attempted at most 4 times and a mutation at most 2; when
\* the last of them has failed the error is surfaced; a settled request is
\* not attempted again; every request that was started settles.
C20_RetryBudget ==
  /\ []WithinBudget
  /\ [][Settled => retryer' = retryer]_vars
  /\ (retryer.st \in {"running", "waiting"}) ~> Settled

\* a read failed four times with errors other than 401 and 403 and is
\* surfaced as an error
C20_Witness ==
  /\ retryer.fn \in QueryFns
  /\ retryer.st = "error"
  /\ Len(retryer.attempts) = 4
  /\ \A i \in 1..4 : retryer.attempts[i] \in {500, NoResponse}

\* a mutation failed twice and is surfaced as an error
C20_WitnessMutation ==
  /\ retryer.fn \in MutationFns
  /\ retryer.st = "error"
  /\ retryer.attempts = <<500, 500>>

\* an item whose id no other item of the request names
OnceIn(items, i) == \A k \in 1..Len(items) : items[k].id = items[i].id => k = i

BulkFails(uid, items) ==
  \E i \in 1..Len(items) : ~BulkItemOk(dbTasks, uid, items[i])

\* C21: a bulk update applies its items independently: when an item of the
\* request fails, the request is answered with one failure (500, no data),
\* every other item that names a task of the caller has been written with its
\* status and order, and no task that the request does not name has changed
C21_FailedBulkKeepsOtherItems ==
  [][\A items \in WideRequests :
       (/\ ev'.type = "api"
        /\ ev'.op = "BULK"
        /\ ev'.uid \in Users
        /\ ApiBulkUpdate(ev'.uid, items)
        /\ BulkFails(ev'.uid, items))
       => /\ ev'.code = 500
          /\ ev'.data = NoData
          /\ \A i \in 1..Len(items) :
               (BulkItemOk(dbTasks, ev'.uid, items[i]) /\ OnceIn(items, i))
               => /\ dbTasks'[items[i].id].status = items[i].status
                  /\ dbTasks'[items[i].id].order = items[i].order
          /\ \A t \in DOMAIN dbTasks :
               (\A i \in 1..Len(items) : items[i].id # t) => dbTasks'[t] = dbTasks[t]
          /\ DOMAIN dbTasks' = DOMAIN dbTasks]_vars

\* a failed bulk request of the caller has moved the caller's first task to
\* REVIEW, a lane no task starts in
C21_Witness ==
  /\ ncalls = 1
  /\ ev.type = "api"
  /\ ev.op = "BULK"
  /\ ev.uid = Me
  /\ ev.code = 500
  /\ dbTasks[1].status = "REVIEW"
  /\ dbTasks[1].order = 1

\* the lanes of the board a stored task is filtered into (task.status === column.id)
LanesOf(t) ==
  {i \in 1..Len(BOARD_COLUMNS) : dbTasks[t].status = BOARD_COLUMNS[i]}

\* C28: every stored task has one of the four statuses and an order that is
\* a non-negative integer, so that it appears in exactly one lane of the board
C28_StoredTasksFitTheBoard ==
  \A t \in DOMAIN dbTasks :
    /\ dbTasks[t].status \in Statuses
    /\ dbTasks[t].order \in Nat
    /\ Cardinality(LanesOf(t)) = 1

\* what creations and single updates keep: a stored task is outside the four
\* statuses or below order 0 only after a bulk update has been answered 200
\* or 500
C28_OnlyBulkLeavesTheBoard ==
  [][(\E t \in DOMAIN dbTasks' :
        \/ dbTasks'[t].status \notin Statuses
        \/ dbTasks'[t].order < 0)
     => \/ ev'.op = "BULK"
        \/ \E t \in DOMAIN dbTasks :
             \/ dbTasks[t].status \notin Statuses
             \/ dbTasks[t].order < 0]_vars

\* the notifications of the step that has just run
Shown == IF ev.type \in {"onMutate", "onSuccess", "onError"} /\ "toasts" \in DOMAIN ev
         THEN Range(ev.toasts) ELSE {}

\* C22: a move whose update request has failed shows a failure notification
\* and not 'Task moved'; 'Task moved' is shown only when the update request
\* of the move has succeeded
C22_TaskMovedOnlyAfterSuccess ==
  /\ (ev.type = "onError" /\ ev.of = "update")
       => /\ Shown \cap {"Failed to update task", "Error"} # {}
          /\ "Task moved" \notin Shown
  /\ "Task moved" \in Shown => ev.type = "onSuccess"

\* what the code keeps of it: every failed update shows the failure
\* notification of the hook, every successful one the success notifications
C22_FailureIsNotified ==
  /\ (ev.type = "onError" /\ ev.of = "update") => "Failed to update task" \in Shown
  /\ (ev.type = "onSuccess" /\ ev.of = "update")
       => "Task updated successfully" \in Shown

\* the dashboard page after a failed update: both notifications of the step
C22_FailedMoveShowsTaskMoved ==
  /\ host = "dashboard"
  /\ ev.type = "onError"
  /\ ev.of = "update"
  /\ ev.toasts = <<"Failed to update task", "Task moved">>

\* the ids of a lane of the board, top to bottom
LaneIds(lane) == [i \in 1..Len(columns[lane]) |-> heap[columns[lane][i]].id]

\* the move made last has succeeded, nothing is in flight and the refetch
\* has put the server's list into the cache; on the dashboard page, where a
\* move starts only when the one before has settled
MoveRefetched ==
  /\ host = "dashboard"
  /\ Quiet
  /\ hist # <<>>
  /\ hist[Len(hist)].result = "ok"
  /\ CacheValues = ServerList

\* C23: after a move has succeeded and the refetch has replaced the cache
\* with the server's list, the board built from that list has the moved task
\* in the destination lane at the destination index j, as the optimistic
\* board had
C23_RefetchedBoardKeepsMovedTaskAtIndex ==
  MoveRefetched =>
    LET last == hist[Len(hist)]
    IN /\ last.order + 1 \in 1..Len(columns[last.status])
       /\ LaneIds(last.status)[last.order + 1] = last.taskId

\* what does hold: the moved task is in the destination lane, with order j
C23_RefetchedBoardKeepsLane ==
  MoveRefetched =>
    LET last == hist[Len(hist)]
    IN \E i \in 1..Len(columns[last.status]) :
         /\ LaneValues(last.status)[i].id = last.taskId
         /\ LaneValues(last.status)[i].order = last.order

LastRollback ==
  /\ ev.type = "onError"
  /\ ev.of = "update"
  /\ muts = <<>>
  /\ ev.first < Len(hist)
  /\ \A k \in ev.first..Len(hist) : hist[k].result = "err"

\* C26: when update mutations that overlap in time have all failed, in any
\* order, the task cache after the last rollback equals the cache as it was
\* before the first of them started
C26_RollbacksRestoreStart == LastRollback => CacheValues = ev.base

\* two overlapping moves of different tasks have failed in the order they
\* were started, and the cache still holds the optimistic change of the first
C26_FirstChangeSurvives ==
  /\ LastRollback
  /\ ev.mid = 2
  /\ hist[1].taskId # hist[2].taskId
  /\ CacheHas(hist[1].taskId, hist[1].status, hist[1].order)
  /\ hist[1].status # "TODO"

\* C27: whatever the interleaving of creations, updates and refetches, the
\* task cache never holds two entries with the same task id
C27_CacheIdsDistinct ==
  \A i \in 1..Len(cache) : \A k \in 1..Len(cache) :
    CacheValues[i].id = CacheValues[k].id => i = k

\* what holds as long as no task is created: the ids of the cache are distinct
C27_DistinctWithoutCreates ==
  createsLeft = MaxCreates => C27_CacheIdsDistinct

\* the created task is in the cache twice, once from the refetch and once
\* from onSuccess of the creation
C27_CreatedTaskTwice ==
  /\ ev.type = "onSuccess"
  /\ ev.of = "create"
  /\ Cardinality({i \in 1..Len(cache) : CacheValues[i].id = InitTasks + 1}) = 2

DoneOf(tasks) == Cardinality({i \in 1..Len(tasks) : tasks[i].status = "DONE"})

\* a rate num / den is 0 for no tasks, else done / total in percent, and
\* lies between 0 and 100
RateOf(rate, done, total) ==
  /\ rate.den > 0
  /\ total = 0 => rate.num = 0
  /\ total > 0 => rate.num * total = done * 100 * rate.den
  /\ 0 <= rate.num
  /\ rate.num <= 100 * rate.den

\* C24: the completion rate is 0 for an empty task list and otherwise the
\* number of DONE tasks divided by the number of tasks, in percent, so it
\* lies between 0 and 100 (and is shown so); the completed count plus the
\* pending count is the total count; each per-project rate follows the same
\* rule, 0 for a project without tasks
C24_CompletionRate ==
  LET a == analytics.summary
  IN /\ a.totalTasks = Len(chartTasks)
     /\ a.completedTasks = DoneOf(chartTasks)
     /\ a.completedTasks + a.pendingTasks = a.totalTasks
     /\ RateOf(a.completionRate, DoneOf(chartTasks), Len(chartTasks))
     /\ a.shown \in 0..1000
     /\ a.shown <= ((a.completionRate.num * 10) \div a.completionRate.den) + 1
     /\ a.shown >= (a.completionRate.num * 10) \div a.completionRate.den
     /\ \A i \in 1..Len(ChartProjects) :
          LET mine == SelectSeq(chartTasks, LAMBDA t : t.projectId = ChartProjects[i])
              item == ProjectItem(chartTasks, ChartProjects[i])
          IN /\ item.total = Len(mine)
             /\ RateOf(item.completion, DoneOf(mine), Len(mine))
             /\ Len(mine) > 0 =>
                  \E k \in 1..Len(analytics.projectProgress) :
                    analytics.projectProgress[k] = item

\* one task of three is done, shown as 33.3%, and one project has no task
C24_Witness ==
  /\ Len(chartTasks) = 3
  /\ analytics.summary.completedTasks = 1
  /\ analytics.summary.shown = 333
  /\ ProjectItem(chartTasks, "p2").total = 0
  /\ ProjectItem(chartTasks, "p2").completion.num = 0

\* the empty task list: 0.0%
C24_WitnessEmpty ==
  /\ chartTasks = <<>>
  /\ analytics.summary.shown = 0
  /\ analytics.projectProgress = <<>>

\* the accepted calls of an identifier, window by window: a window starts
\* with the first accepted call and lasts windowMs, the next one starts with
\* the first accepted call after it
RECURSIVE AcceptedPerWindow(_, _, _, _, _)
AcceptedPerWindow(log, identifier, windowMs, start, counts) ==
  IF log = <<>> THEN counts
  ELSE LET c == Head(log)
       IN IF c.identifier # identifier \/ ~c.result
          THEN AcceptedPerWindow(Tail(log), identifier, windowMs, start, counts)
          ELSE IF counts = <<>> \/ c.now > start + windowMs
          THEN AcceptedPerWindow(Tail(log), identifier, windowMs, c.now,
                                 Append(counts, 1))
          ELSE AcceptedPerWindow(Tail(log), identifier, windowMs, start,
                                 [counts EXCEPT ![Len(counts)] = @ + 1])

WithinLimit ==
  \A identifier \in Identifiers :
    LET counts == AcceptedPerWindow(calls, identifier, limit.windowMs, 0, <<>>)
    IN \A k \in 1..Len(counts) : counts[k] <= limit.maxRequests

\* C29: for any identifier, maxRequests and windowMs, checkRateLimit returns
\* true at most maxRequests times within one window of windowMs counted from
\* the first accepted call of the window
C29_AtMostMaxRequestsPerWindow == WithinLimit

\* the limit is kept for every maxRequests of at least 1
C29_LimitKeptFromOne == limit.maxRequests >= 1 => WithinLimit

\* once the window has passed, the call is accepted and counts as the first;
\* a call for one identifier leaves the entry of every other identifier alone
C29_RestartAndIndependence ==
  [][ev'.type = "checkRateLimit" =>
       /\ (/\ ev'.identifier \in DOMAIN rateLimitMap
           /\ dateNow > rateLimitMap[ev'.identifier].resetTime)
            => /\ ev'.result
               /\ rateLimitMap'[ev'.identifier].count = 1
       /\ \A other \in Identifiers \ {ev'.identifier} :
            /\ other \in DOMAIN rateLimitMap' <=> other \in DOMAIN rateLimitMap
            /\ other \in DOMAIN rateLimitMap => rateLimitMap'[other] = rateLimitMap[other]]_vars

\* a limit of no request at all, and a call that was let through
C29_AcceptedWithLimitZero ==
  /\ limit.maxRequests = 0
  /\ ev.type = "checkRateLimit"
  /\ ev.result

PanelAlerts == DeadlineAlerts(panelTasks, dismissedNotifications)

\* C30: for an unchanged task list, every alert that was dismissed, one by
\* one or by clear-all, stays hidden, and no alert is shown right after a
\* clear-all
C30_DismissedStayHidden ==
  /\ everDismissed \cap PanelAlerts = {}
  /\ ev.type = "clearAllNotifications" => PanelAlerts = {}

\* a single dismissal hides its alert and brings no alert back
C30_DismissalHides ==
  [][ev'.type = "dismissNotification" =>
       DeadlineAlerts(panelTasks', dismissedNotifications')
         = PanelAlerts \ {ev'.taskId}]_vars

\* right after a clear-all the panel has the alert that was dismissed before
C30_ClearAllBringsBack ==
  /\ ev.type = "clearAllNotifications"
  /\ PanelAlerts # {}
  /\ PanelAlerts \subseteq everDismissed

====
